---- MODULE Spec2Model ----
(***************************************************************************)
(* Notes REST API (Express router src/routes/notes.ts behind the           *)
(* hasAuthentication middleware).  The state is the in-memory note         *)
(* collection plus the last response written; one action per route.        *)
(***************************************************************************)
EXTENDS Integers, Sequences, FiniteSets

VARIABLES notes, served, res

vars == <<notes, served, res>>

(* ---------------------------------------------------------------- bounds *)
\* Ids the storage hands out are drawn from 1..MaxId, so the collection
\* holds at most MaxId notes.
MaxId == 2

(* ------------------------------------------------------------ JS values *)
Undefined == "undefined"
Null == "null"
Nullish == {Undefined, Null}

Titles == {"t1"}
Contents == {"c1", "c2"}
Users == {"alice", "bob"}

\* Who sends a request: its Authorization header (absent, or any string,
\* also the empty one) and the identity found in req.user by the handlers.
Callers ==
    {<<Undefined, Undefined>>, <<"", Undefined>>,
     <<"Bearer a", "alice">>, <<"Bearer b", "bob">>}

Identities == {c[2] : c \in Callers}

Digits == <<"0", "1", "2", "3", "4", "5", "6", "7", "8", "9">>

DigitChars == {Digits[d] : d \in 1..10}

DigitVal == [c \in DigitChars |-> (CHOOSE d \in 1..10 : Digits[d] = c) - 1]

IsDigit(c) == c \in DigitChars

\* The route parameter :id is a string; here a sequence of characters.
NoParam == <<>>

IdParams ==
    {<<Digits[i + 1]>> : i \in 1..MaxId} \cup {<<"x">>, <<"2", "x">>}

(* --------------------------------------------------------------- parseInt *)
\* Number: NaN or a finite integer.
NaN == [nan |-> TRUE, n |-> 0]

Num(n) == [nan |-> FALSE, n |-> n]

RECURSIVE SkipSpace(_)
SkipSpace(s) ==
    IF s # <<>> /\ Head(s) = " " THEN SkipSpace(Tail(s)) ELSE s

RECURSIVE DigitPrefix(_, _)
DigitPrefix(s, acc) ==
    IF s # <<>> /\ IsDigit(Head(s))
    THEN DigitPrefix(Tail(s), 10 * acc + DigitVal[Head(s)])
    ELSE acc

\* parseInt(string): leading white space is skipped, an optional sign is
\* read, then the longest prefix of decimal digits; NaN when there is none.
parseInt(s) ==
    LET t == SkipSpace(s)
        neg == t # <<>> /\ Head(t) = "-"
        u == IF t # <<>> /\ Head(t) \in {"-", "+"} THEN Tail(t) ELSE t
    IN  IF u = <<>> \/ ~IsDigit(Head(u))
        THEN NaN
        ELSE Num(IF neg THEN 0 - DigitPrefix(u, 0) ELSE DigitPrefix(u, 0))

\* parseInt over the route parameters that occur, computed once.
Parsed == [p \in IdParams |-> parseInt(p)]

(* ------------------------------------------------- services/data (store) *)
Note(id, title, content, user) ==
    [id |-> id, title |-> title, content |-> content, user |-> user]

NoteIds(ns) == {ns[i].id : i \in 1..Len(ns)}

getNotes(ns) == ns

\* The notes with the given id, first match first; <<>> stands for undefined.
\* NaN equals no id.
getNoteById(ns, id) ==
    IF id.nan THEN <<>> ELSE SelectSeq(ns, LAMBDA n : n.id = id.n)

\* Variant: the next id is the number of notes plus one.
FreshIds_length(ns) == {Len(ns) + 1} \cap (1..MaxId)

\* Ids the storage may assign to a new note: any id no note has.
FreshIds(ns) == (1..MaxId) \ NoteIds(ns)

addNote(ns, newId, title, content, user) ==
    Append(ns, Note(newId, title, content, user))

updateNote(ns, id, title, content, user) ==
    [i \in 1..Len(ns) |->
        IF ~id.nan /\ ns[i].id = id.n
        THEN Note(ns[i].id, title, content, user)
        ELSE ns[i]]

deleteNoteById(ns, id) ==
    IF id.nan THEN ns ELSE SelectSeq(ns, LAMBDA n : n.id # id.n)

(* -------------------------------------------------------------- requests *)
Body(title, content, user) ==
    [title |-> title, content |-> content, user |-> user]

NoBody == Body(Undefined, Undefined, Undefined)

\* A JSON body carries each key with a string or null, or leaves it out.
Bodies ==
    {Body(t, c, u) : t \in Titles \cup Nullish,
                     c \in Contents \cup Nullish,
                     u \in Users \cup Nullish}

\* Bodies that carry all three keys with a string.
FullBodies == {Body(t, c, u) : t \in Titles, c \in Contents, u \in Users}

Request(method, authorization, user, id, body) ==
    [method |-> method, authorization |-> authorization, user |-> user,
     id |-> id, body |-> body]

PostRequests ==
    {Request("POST", a[1], a[2], NoParam, b) : a \in Callers, b \in FullBodies}

ListRequests ==
    {Request("GET", a[1], a[2], NoParam, NoBody) : a \in Callers}

GetRequests ==
    {Request("GET", a[1], a[2], p, NoBody) : a \in Callers, p \in IdParams}

PutRequests ==
    {Request("PUT", a[1], a[2], p, b) :
        a \in Callers, p \in IdParams, b \in FullBodies}

PatchRequests ==
    {Request("PATCH", a[1], a[2], p, b) :
        a \in Callers, p \in IdParams, b \in Bodies}

DeleteRequests ==
    {Request("DELETE", a[1], a[2], p, NoBody) : a \in Callers, p \in IdParams}

(* ------------------------------------------------------------- responses *)
Response(status, text, body) == [status |-> status, text |-> text, body |-> body]

NotFoundText == "Die Notiz mit ID ${id} wurde nicht gefunden."

\* What a route leaves behind: the collection, the response, and whether the
\* middleware called next() so that the route handler ran.
Outcome(ns, next, response) == [notes |-> ns, next |-> next, res |-> response]

(* ------------------------------------------------------- middleware/auth *)
\* Variant: the gate tests the header for truthiness (an empty header fails).
hasAuthentication_truthy(req) == req.authorization \notin {Undefined, ""}

\* TRUE when the gate calls next(), FALSE when it answers 401 itself.
hasAuthentication(req) == req.authorization # Undefined

Unauthorized(ns) == Outcome(ns, FALSE, Response(401, "Unauthorized", <<>>))

(* --------------------------------------------------------- routes/notes *)
\* Variant: title and content are handed to addNote in the wrong order.
postHandler_swapped(ns, req, newId) ==
    Outcome(addNote(ns, newId, req.body.content, req.body.title, req.body.user),
            TRUE, Response(204, "", <<>>))

postHandler(ns, req, newId) ==
    Outcome(addNote(ns, newId, req.body.title, req.body.content, req.body.user),
            TRUE, Response(204, "", <<>>))

\* Variant: the list is sent without the filter on the owner.
listHandler_unfiltered(ns, req) ==
    Outcome(ns, TRUE, Response(200, "", getNotes(ns)))

listHandler(ns, req) ==
    Outcome(ns, TRUE,
            Response(200, "", SelectSeq(getNotes(ns), LAMBDA n : n.user = req.user)))

getHandler(ns, req) ==
    LET id == Parsed[req.id]
        note == getNoteById(ns, id)
    IN  IF note = <<>>
        THEN Outcome(ns, TRUE, Response(404, NotFoundText, <<>>))
        ELSE Outcome(ns, TRUE, Response(200, "", <<Head(note)>>))

\* Variant: replace is done as remove and add, so the note gets a new id
\* when the storage has one to give.
putHandler_recreate(ns, req) ==
    LET id == Parsed[req.id]
        oldNote == getNoteById(ns, id)
        newId == IF FreshIds(ns) = {} THEN id.n ELSE CHOOSE i \in FreshIds(ns) : TRUE
    IN  IF oldNote = <<>>
        THEN Outcome(ns, TRUE, Response(404, NotFoundText, <<>>))
        ELSE Outcome(addNote(deleteNoteById(ns, id), newId,
                             req.body.title, req.body.content, req.body.user),
                     TRUE, Response(204, "", <<>>))

\* Variant: only the owner of a note may replace it.
putHandler_ownerOnly(ns, req) ==
    LET id == Parsed[req.id]
        oldNote == getNoteById(ns, id)
    IN  IF oldNote = <<>>
        THEN Outcome(ns, TRUE, Response(404, NotFoundText, <<>>))
        ELSE IF Head(oldNote).user # req.user
        THEN Outcome(ns, TRUE, Response(403, "Forbidden", <<>>))
        ELSE Outcome(updateNote(ns, id, req.body.title, req.body.content, req.body.user),
                     TRUE, Response(204, "", <<>>))

putHandler(ns, req) ==
    LET id == Parsed[req.id]
        oldNote == getNoteById(ns, id)
    IN  IF oldNote = <<>>
        THEN Outcome(ns, TRUE, Response(404, NotFoundText, <<>>))
        ELSE Outcome(updateNote(ns, id, req.body.title, req.body.content, req.body.user),
                     TRUE, Response(204, "", <<>>))

\* a ?? b
Coalesce(a, b) == IF a \in Nullish THEN b ELSE a

\* Variant: the body's values are written without the ?? fallback.
patchHandler_overwrite(ns, req) ==
    LET id == Parsed[req.id]
        oldNote == getNoteById(ns, id)
    IN  IF oldNote = <<>>
        THEN Outcome(ns, TRUE, Response(404, NotFoundText, <<>>))
        ELSE Outcome(updateNote(ns, id, req.body.title, req.body.content, req.body.user),
                     TRUE, Response(204, "", <<>>))

patchHandler(ns, req) ==
    LET id == Parsed[req.id]
        oldNote == getNoteById(ns, id)
    IN  IF oldNote = <<>>
        THEN Outcome(ns, TRUE, Response(404, NotFoundText, <<>>))
        ELSE Outcome(updateNote(ns, id,
                                Coalesce(req.body.title, Head(oldNote).title),
                                Coalesce(req.body.content, Head(oldNote).content),
                                Coalesce(req.body.user, Head(oldNote).user)),
                     TRUE, Response(204, "", <<>>))

\* Variant: the existence check is missing.
deleteHandler_unchecked(ns, req) ==
    Outcome(deleteNoteById(ns, Parsed[req.id]), TRUE, Response(204, "", <<>>))

\* Variant: 204 is sent but deleteNoteById is not called.
deleteHandler_kept(ns, req) ==
    LET id == Parsed[req.id]
        oldNote == getNoteById(ns, id)
    IN  IF oldNote = <<>>
        THEN Outcome(ns, TRUE, Response(404, NotFoundText, <<>>))
        ELSE Outcome(ns, TRUE, Response(204, "", <<>>))

deleteHandler(ns, req) ==
    LET id == Parsed[req.id]
        oldNote == getNoteById(ns, id)
    IN  IF oldNote = <<>>
        THEN Outcome(ns, TRUE, Response(404, NotFoundText, <<>>))
        ELSE Outcome(deleteNoteById(ns, id), TRUE, Response(204, "", <<>>))

\* router.METHOD(path, hasAuthentication, handler)
PostRoute(ns, req, newId) ==
    IF hasAuthentication(req) THEN postHandler(ns, req, newId) ELSE Unauthorized(ns)

ListRoute(ns, req) ==
    IF hasAuthentication(req) THEN listHandler(ns, req) ELSE Unauthorized(ns)

GetRoute(ns, req) ==
    IF hasAuthentication(req) THEN getHandler(ns, req) ELSE Unauthorized(ns)

PutRoute(ns, req) ==
    IF hasAuthentication(req) THEN putHandler(ns, req) ELSE Unauthorized(ns)

PatchRoute(ns, req) ==
    IF hasAuthentication(req) THEN patchHandler(ns, req) ELSE Unauthorized(ns)

DeleteRoute(ns, req) ==
    IF hasAuthentication(req) THEN deleteHandler(ns, req) ELSE Unauthorized(ns)

(* ---------------------------------------------------------- state machine *)
\* served: the route that answered last, and whether its handler ran.
Served(route, req, out) == [route |-> route, next |-> out.next]

Finish(route, req, out) ==
    /\ notes' = out.notes
    /\ res' = out.res
    /\ served' = Served(route, req, out)

Init ==
    /\ notes = <<>>
    /\ served = [route |-> "none", next |-> FALSE]
    /\ res = Response(0, "", <<>>)

Post ==
    \E req \in PostRequests :
        \/ /\ ~hasAuthentication(req)
           /\ Finish("POST /", req, PostRoute(notes, req, 0))
        \/ \E newId \in FreshIds(notes) :
               /\ hasAuthentication(req)
               /\ Finish("POST /", req, PostRoute(notes, req, newId))

List == \E req \in ListRequests : Finish("GET /", req, ListRoute(notes, req))

Get == \E req \in GetRequests : Finish("GET /:id", req, GetRoute(notes, req))

Put == \E req \in PutRequests : Finish("PUT /:id", req, PutRoute(notes, req))

Patch == \E req \in PatchRequests : Finish("PATCH /:id", req, PatchRoute(notes, req))

Delete == \E req \in DeleteRequests : Finish("DELETE /:id", req, DeleteRoute(notes, req))

Next == Post \/ List \/ Get \/ Put \/ Patch \/ Delete

Spec == Init /\ [][Next]_vars

(* ================================================================ claims *)
\* The request carries an Authorization header (of any value).
HasHeader(req) == req.authorization # Undefined

\* The integer the path names, as a set: empty when the path names none.
PathId(req) == IF Parsed[req.id].nan THEN {} ELSE {Parsed[req.id].n}

\* The notes of ns that have the id the path names.
Addressed(ns, req) == {i \in 1..Len(ns) : ns[i].id \in PathId(req)}

UpdateRequests == PutRequests \cup PatchRequests

ChangeRequests == UpdateRequests \cup DeleteRequests

IdRequests == GetRequests \cup ChangeRequests

\* What each route computes for a request in the current collection (for
\* POST: one outcome per id the storage may assign; 0 when it assigns none).
Outcomes(req) ==
    CASE req.method = "POST" ->
            {PostRoute(notes, req, i) : i \in FreshIds(notes) \cup {0}}
      [] req.method = "GET" /\ req.id = NoParam -> {ListRoute(notes, req)}
      [] req.method = "GET" /\ req.id # NoParam -> {GetRoute(notes, req)}
      [] req.method = "PUT" -> {PutRoute(notes, req)}
      [] req.method = "PATCH" -> {PatchRoute(notes, req)}
      [] req.method = "DELETE" -> {DeleteRoute(notes, req)}

AllRequests == PostRequests \cup ListRequests \cup IdRequests

Elems(seq) == {seq[i] : i \in 1..Len(seq)}

\* C1: on each of the six routes a request without Authorization header is
\* answered 401 by the gate, the handler does not run and the collection is
\* left as it was; a request with any header value reaches the handler.
C1_GateOnHeaderPresence ==
    /\ \A req \in AllRequests : \A out \in Outcomes(req) :
          IF HasHeader(req)
          THEN out.next /\ out.res.status # 401
          ELSE /\ ~out.next
               /\ out.res.status = 401
               /\ out.notes = notes
    /\ served.route # "none" => (served.next <=> res.status # 401)

C1_Witness ==
    /\ served.route = "DELETE /:id"
    /\ ~served.next
    /\ res.status = 401
    /\ Len(notes) = 2

\* C2: GET / with identity U answers 200 with exactly the notes whose user
\* is U, each once, whatever requests built the collection.
C2_ListIsExactlyOwn ==
    /\ \A req \in ListRequests : HasHeader(req) =>
          LET out == ListRoute(notes, req)
              own == {i \in 1..Len(notes) : notes[i].user = req.user}
          IN  /\ out.res.status = 200
              /\ Elems(out.res.body) = {notes[i] : i \in own}
              /\ Len(out.res.body) = Cardinality(own)
              /\ out.notes = notes
    /\ (served.route = "GET /" /\ served.next) =>
          /\ res.status = 200
          /\ \E u \in Identities :
                \A n \in Elems(notes) : n \in Elems(res.body) <=> n.user = u

C2_Witness ==
    /\ served.route = "GET /"
    /\ res.status = 200
    /\ Len(res.body) = 1
    /\ Len(notes) = 2
    /\ res.body[1].user = "bob"
    /\ \E n \in Elems(notes) : n.user = "alice"

\* C3: GET /:id for a note that exists and whose user differs from the
\* caller's identity answers 404 and does not return the note.
C3_OtherUsersNoteIs404 ==
    [][\A req \in GetRequests :
          (/\ HasHeader(req)
           /\ \E i \in Addressed(notes, req) : notes[i].user # req.user
           /\ Finish("GET /:id", req, GetRoute(notes, req)))
          => (res'.status = 404 /\ res'.body = <<>>)]_vars

\* C4: POST / whose body user differs from the caller's identity answers 403
\* and adds no note.
C4_CreateForOtherIs403 ==
    [][\A req \in PostRequests : \A newId \in FreshIds(notes) :
          (/\ HasHeader(req)
           /\ req.body.user # req.user
           /\ Finish("POST /", req, PostRoute(notes, req, newId)))
          => (res'.status = 403 /\ notes' = notes)]_vars

\* The answer of GET /:id for id i asked by user u, in collection ns.
Fetch(ns, i, u) ==
    GetRoute(ns, Request("GET", "Bearer a", u, <<Digits[i + 1]>>, NoBody)).res

\* C5: after POST / with title T, content C, user U answered 204, GET /:id
\* by U for the assigned id answers 200 with exactly {id, T, C, U}; and no
\* request changes that answer for a note of the collection, other than a
\* PUT, PATCH or DELETE that names the note's id and is answered 204.
C5_CreateGetRoundTrip ==
    /\ \A req \in PostRequests : \A newId \in FreshIds(notes) :
          HasHeader(req) =>
             LET out == PostRoute(notes, req, newId)
             IN  /\ out.res = Response(204, "", <<>>)
                 /\ Len(out.notes) = Len(notes) + 1
                 /\ Fetch(out.notes, newId, req.body.user) =
                        Response(200, "",
                            <<Note(newId, req.body.title, req.body.content,
                                   req.body.user)>>)
    /\ \A req \in AllRequests : \A out \in Outcomes(req) :
          out.notes # notes =>
             \A i \in 1..Len(notes) :
                \/ /\ req.method \in {"PUT", "PATCH", "DELETE"}
                   /\ PathId(req) = {notes[i].id}
                   /\ out.res.status = 204
                \/ Fetch(out.notes, notes[i].id, notes[i].user) =
                      Response(200, "", <<notes[i]>>)
    /\ (served.route = "POST /" /\ served.next) =>
          /\ res.status = 204
          /\ notes # <<>>
          /\ LET new == notes[Len(notes)]
             IN  Fetch(notes, new.id, new.user) = Response(200, "", <<new>>)

C5_Witness ==
    /\ served.route = "POST /"
    /\ res.status = 204
    /\ Len(notes) = 2
    /\ notes[2] = Note(1, "t1", "c2", "bob")
    /\ Fetch(notes, 1, "bob").status = 200

\* C6: PUT, PATCH and DELETE on /:id whose id no note has (also an id that
\* is no integer) answer 404 and leave the collection as it was.
C6_MissingIdIs404 ==
    /\ \A req \in ChangeRequests :
          (HasHeader(req) /\ Addressed(notes, req) = {}) =>
             \A out \in Outcomes(req) :
                out.res.status = 404 /\ out.notes = notes /\ out.next
    /\ (served.route \in {"PUT /:id", "PATCH /:id", "DELETE /:id"} /\ served.next)
          => res.status \in {204, 404}

C6_Witness ==
    /\ served.route \in {"PUT /:id", "PATCH /:id", "DELETE /:id"}
    /\ served.next
    /\ res.status = 404
    /\ Len(notes) = 1

\* The note PATCH is to leave behind when a key counts as supplied exactly
\* when Supplied(value) holds.
Patched(old, body, Supplied(_)) ==
    Note(old.id,
         IF Supplied(body.title) THEN body.title ELSE old.title,
         IF Supplied(body.content) THEN body.content ELSE old.content,
         IF Supplied(body.user) THEN body.user ELSE old.user)

PatchChangesOnly(Supplied(_)) ==
    \A req \in PatchRequests :
       (HasHeader(req) /\ PathId(req) \subseteq NoteIds(notes) /\ PathId(req) # {}) =>
          LET out == PatchRoute(notes, req)
          IN  /\ out.res.status = 204
              /\ Len(out.notes) = Len(notes)
              /\ \A i \in 1..Len(notes) :
                    out.notes[i] =
                       IF notes[i].id \in PathId(req)
                       THEN Patched(notes[i], req.body, Supplied)
                       ELSE notes[i]

\* C7 (as stated): PATCH /:id on an existing note answers 204; each of
\* title, content and user takes the body's value when the body has the key
\* and keeps its value otherwise; the id and every other note are unchanged.
C7_PatchTakesEveryProvidedKey ==
    PatchChangesOnly(LAMBDA v : v # Undefined)

\* C7 (amended): as above, where a key counts only when the body has it with
\* a value other than null; a key that is absent or null keeps its value.
C7_PatchTakesNonNullKeys ==
    PatchChangesOnly(LAMBDA v : v # Undefined /\ v # Null)

C7_Witness ==
    /\ served.route = "PATCH /:id"
    /\ res.status = 204
    /\ Len(notes) = 2
    /\ notes[1] = Note(2, "t1", "c2", "alice")
    /\ notes[2] = Note(1, "t1", "c1", "bob")

\* C8: after DELETE /:id on an existing note answered 204, no note has that
\* id: GET /:id for it answers 404, no user's GET / lists it, and a second
\* DELETE of it answers 404.
C8_DeletedIsGone ==
    [][(served'.route = "DELETE /:id" /\ res'.status = 204) =>
          \A req \in DeleteRequests :
             (HasHeader(req) /\ Finish("DELETE /:id", req, DeleteRoute(notes, req)))
             => /\ Addressed(notes, req) # {}
                /\ Addressed(notes', req) = {}
                /\ \A get \in GetRequests :
                      (HasHeader(get) /\ PathId(get) = PathId(req))
                      => GetRoute(notes', get).res.status = 404
                /\ \A list \in ListRequests :
                      HasHeader(list) =>
                         \A n \in Elems(ListRoute(notes', list).res.body) :
                            n.id \notin PathId(req)
                /\ DeleteRoute(notes', req).res.status = 404
                /\ Len(notes') = Len(notes) - 1]_vars

C8_Witness ==
    /\ served.route = "DELETE /:id"
    /\ res.status = 204
    /\ Len(notes) = 1

C10_NoOwnershipCheck ==
    /\ \A req \in ChangeRequests :
          \A i \in 1..Len(notes) :
             (/\ HasHeader(req)
              /\ notes[i].id \in PathId(req)
              /\ notes[i].user # req.user) =>
                \A out \in Outcomes(req) :
                   /\ out.res.status = 204
                   /\ req.method = "PUT" =>
                        /\ out.notes[i] =
                              Note(notes[i].id, req.body.title, req.body.content,
                                   req.body.user)
                        /\ req.body.user # notes[i].user =>
                              \A n \in Elems(ListRoute(out.notes,
                                        Request("GET", "Bearer a", notes[i].user,
                                                NoParam, NoBody)).res.body) :
                                 n.id # notes[i].id
                   /\ req.method = "PATCH" =>
                        PatchRoute(notes, [req EXCEPT !.user = notes[i].user]).notes
                           = out.notes
                   /\ req.method = "DELETE" =>
                        notes[i].id \notin NoteIds(out.notes)
    /\ (served.route \in {"PUT /:id", "PATCH /:id", "DELETE /:id"} /\ served.next)
          => res.status # 403

C10_Witness ==
    /\ served.route = "PUT /:id"
    /\ res.status = 204
    /\ Len(notes) = 2
    /\ \A n \in Elems(notes) : n.user = "bob"

====
